---- MODULE Spec2Model ----
(***************************************************************************)
(* A model of livegrep's codesearch tool (src/tools/codesearch.cc): the    *)
(* start-up of main (initialize_search, sem_init, listen or interact), the *)
(* accept loop, and the request/response loop of every session (interact)  *)
(* around the global semaphore interact_sem.                               *)
(*                                                                         *)
(* The match engine (code_searcher::search_thread::match), the index       *)
(* (code_searcher) and the presentation layer (codesearch_interface) are   *)
(* declared in headers that are not part of the source at hand; the model  *)
(* follows the call sites of codesearch.cc and, for the engine's limits    *)
(* and exit reasons, sections 4.4 and 5 of the specification and the       *)
(* SearchStats message of livegrep.proto.                                  *)
(***************************************************************************)
EXTENDS Integers, Sequences, FiniteSets, TLC

(***************************************************************************)
(* Bounds of the model.                                                    *)
(***************************************************************************)
\* Connections the accept loop takes (client sessions 1..MaxClients).
MaxClients == 2
\* Largest value of --concurrency that is tried.
MaxConcurrency == 2
\* Largest number of positional tree specs on the command line.
MaxArgs == 1
\* Largest match limit of the engine that is tried.
MaxMatchLimit == 2

(***************************************************************************)
(* Program constants.                                                      *)
(***************************************************************************)
kMaxProgramSize == 4000
kMaxWidth == 200

VARIABLES
    FLAGS,         \* the gflags: load_index, dump_index, listen, quiet, concurrency
    argc,          \* main's argc after flag parsing: argv[1..argc-1] are tree specs
    argv,          \* the tree specs argv[1..argc-1], each a sequence of characters
    match_limit,   \* the engine's limit on emitted results
    mainpc,        \* where the main thread is
    walk_i,        \* the loop variable i of initialize_search
    index,         \* the code_searcher: its allocator, its trees, sealed or not
    interact_sem,  \* the value of the semaphore
    server,        \* the socket of bind_to_address and the calls made for it
    pc,            \* where each session's thread is
    query,         \* input / line, file, tree of the iteration of each session
    cursor,        \* the engine's position in the candidate lines, per session
    results,       \* the match_results the engine handed to print_match, per session
    stats,         \* the match_stats of the iteration, per session
    out,           \* the calls made on the session's interface in this iteration
    nmatch,        \* how often search.match was called in this iteration
    filters,       \* the file and tree filter the call of search.match was given
    hup            \* the sessions whose input has ended (EOF or transport error)

vars == <<FLAGS, argc, argv, match_limit, mainpc, walk_i, index, interact_sem, server,
          pc, query, cursor, results, stats, out, nmatch, filters, hup>>

mainVars == <<mainpc, walk_i, index, interact_sem, server>>
cfgVars == <<FLAGS, argc, argv, match_limit>>
sessVars == <<pc, query, cursor, results, stats, out, nmatch, filters, hup>>

\* Session 0 is main's own interact on stdin; 1..MaxClients are handle_client threads.
Sessions == 0..MaxClients
Clients == 1..MaxClients

(***************************************************************************)
(* Regular expressions.  RE2 is a library; a pattern is known to the model *)
(* by what codesearch.cc asks of it: ok(), ProgramSize(), the width that   *)
(* WidthWalker computes, and what it matches.                              *)
(***************************************************************************)
LineRegexes == {"hello", "edge", "(", "big", "wide"}
FileRegexes == {"", "\\.c$", "("}
TreeRegexes == {"", "^1$", "("}

\* RE2::ok(): the pattern compiled.  The empty pattern compiles.
ReOk(p) == p # "("

\* RE2::ProgramSize(): "edge" and "wide" sit on the bound, "big" one above it.
ProgramSize(p) ==
    CASE p = "big" -> kMaxProgramSize + 1
      [] p \in {"edge", "wide"} -> kMaxProgramSize
      [] OTHER -> 10

\* WidthWalker::Walk(re.Regexp(), 0): "edge" and "big" sit on the bound, "wide" above.
Width(p) ==
    CASE p = "wide" -> kMaxWidth + 1
      [] p \in {"edge", "big"} -> kMaxWidth
      [] OTHER -> 1

(***************************************************************************)
(* The input of one getline: a text that parse_query accepts, giving line, *)
(* file and tree, or one it refuses.                                       *)
(***************************************************************************)
NoInput == [kind |-> "none", line |-> "", file |-> "", tree |-> ""]
Garbage == [kind |-> "garbage", line |-> "", file |-> "", tree |-> ""]
Query(l, f, t) == [kind |-> "query", line |-> l, file |-> f, tree |-> t]

\* The queries that are tried: each line regex without filters, "hello" with
\* every pair of filters, and bad regexes in more than one place.
Queries ==
    {Query(l, "", "") : l \in LineRegexes}
    \cup {Query("hello", f, t) : f \in FileRegexes, t \in TreeRegexes}
    \cup {Query("(", "(", "("), Query("big", "(", ""), Query("wide", "", "(")}
Inputs == Queries \cup {Garbage}

\* codesearch_interface::parse_query: false when the input is no query.
parse_query(input) == input.kind = "query"

(***************************************************************************)
(* The index.  A tree is known by the position of its spec in argv; each   *)
(* tree brings the same two one-line files.  An index file that load_index *)
(* reads holds the trees LoadedTrees.                                      *)
(***************************************************************************)
TreeLines(t) ==
    << [tree |-> t, path |-> "a.c",  line_number |-> 1, line |-> "hello"],
       [tree |-> t, path |-> "b.py", line_number |-> 1, line |-> "hello world"] >>

LoadedTrees == <<2>>

\* calls: the calls made on the code_searcher and its indexers, in their order;
\* walked: the git_indexer and the revision of every indexer.walk.
EmptyIndex ==
    [alloc |-> "none", trees |-> <<>>, sealed |-> FALSE, finalized |-> 0,
     loaded |-> FALSE, dumped |-> FALSE, calls |-> <<>>, walked |-> <<>>]

RECURSIVE Corpus(_)
\* The lines of the index, grouped by tree and path, in the order they were added.
Corpus(trees) ==
    IF trees = <<>> THEN <<>> ELSE TreeLines(Head(trees)) \o Corpus(Tail(trees))

\* What the line regex matches: "hello" every line with hello, "edge" the lines with world.
ReMatch(p, text) ==
    CASE p = "hello" -> text \in {"hello", "hello world"}
      [] p = "edge" -> text = "hello world"
      [] p = "" -> TRUE
      [] OTHER -> FALSE

FileMatch(p, path) == IF p = "" THEN TRUE ELSE p = "\\.c$" /\ path = "a.c"
TreeMatch(p, t) == IF p = "" THEN TRUE ELSE p = "^1$" /\ t = 1

(***************************************************************************)
(* std::string, as far as codesearch.cc uses it.  A string is a sequence   *)
(* of characters; positions count from 0 and npos is -1, as in the code.   *)
(***************************************************************************)
npos == 0 - 1

\* Is pat found in s at the 0-based position i?
At(s, pat, i) ==
    /\ i + Len(pat) <= Len(s)
    /\ \A k \in 1..Len(pat) : s[i + k] = pat[k]

\* string::find: the first position at which pat is found, or npos.
Find(s, pat) ==
    IF \E i \in 0..Len(s) : At(s, pat, i)
    THEN CHOOSE i \in 0..Len(s) : At(s, pat, i) /\ \A j \in 0..(i - 1) : ~At(s, pat, j)
    ELSE npos

\* string::substr(pos, n) and string::substr(pos).
Substr(s, pos, n) == SubSeq(s, pos + 1, IF pos + n < Len(s) THEN pos + n ELSE Len(s))
SubstrFrom(s, pos) == SubSeq(s, pos + 1, Len(s))

(***************************************************************************)
(* parse_walk_spec and walk_one.                                           *)
(***************************************************************************)
HEAD == <<"H", "E", "A", "D">>

RECURSIVE RevsLoop(_, _)
\* parse_walk_spec, lines 141-146: the loop over the commas, then what is left.
RevsLoop(revs, acc) ==
    LET idx == Find(revs, <<",">>) IN
    IF idx # npos
    THEN RevsLoop(SubstrFrom(revs, idx + 1), Append(acc, Substr(revs, 0, idx)))
    ELSE IF Len(revs) > 0 THEN Append(acc, revs) ELSE acc

\* A parse_walk_spec that leaves an empty list of revisions empty.
NoDefaultRevs(revs) == revs

\* parse_walk_spec, lines 148-150: HEAD when no revision was given.
DefaultRevs(revs) == IF revs = <<>> THEN <<HEAD>> ELSE revs

\* parse_walk_spec, lines 131-153.
parse_walk_spec(spec) ==
    LET at == Find(spec, <<"@">>)
        name == IF at # npos THEN Substr(spec, 0, at) ELSE <<>>
        spec1 == IF at # npos THEN SubstrFrom(spec, at + 1) ELSE spec
        colon == Find(spec1, <<":">>)
        revs == IF colon # npos THEN RevsLoop(SubstrFrom(spec1, colon + 1), <<>>) ELSE <<>>
        spec2 == IF colon # npos THEN Substr(spec1, 0, colon) ELSE spec1
    IN  [path |-> spec2, name |-> name, revs |-> DefaultRevs(revs)]

\* The tree specs that are tried where sessions are checked: one revision each.
PlainSpecs == { <<"r">> }

\* The tree specs that are tried for the start-up: with and without name and
\* revisions, with '@', ':' and ',' in more than one place, and with empty items.
WalkSpecs ==
    { <<"r">>,
      <<"n", "@", "r">>,
      <<"r", ":", "a">>,
      <<"n", "@", "r", ":", "a", ",", "b">>,
      <<"r", ":", "b", ",", "a", ",", "b">>,
      <<"r", ":">>,
      <<"n", "@", "m", "@", "r">>,
      <<"r", ":", "a", ":", "b">>,
      <<"r", ":", "a", "@", "b">>,
      <<"r", ":", "a", ",">>,
      <<"r", ":", ",", "a">>,
      <<"@", ":", ",">>,
      <<>> }

(***************************************************************************)
(* main and initialize_search.                                             *)
(***************************************************************************)
Running == mainpc \notin {"exited", "died", "sigpipe", "segv"}

\* No call of search.match yet in this iteration.
NoFilters == [file_re |-> "<none>", tree_re |-> "<none>"]

\* exit: the process is gone, and with it every thread, its locals and the semaphore.
ProcessEnds(how) ==
    /\ mainpc' = how
    /\ pc' = [s \in Sessions |-> IF pc[s] = "unborn" THEN "unborn" ELSE "killed"]
    /\ query' = [s \in Sessions |-> NoInput]
    /\ cursor' = [s \in Sessions |-> 0]
    /\ results' = [s \in Sessions |-> <<>>]
    /\ stats' = [s \in Sessions |-> [exit_reason |-> "NONE"]]
    /\ out' = [s \in Sessions |-> <<>>]
    /\ nmatch' = [s \in Sessions |-> 0]
    /\ filters' = [s \in Sessions |-> NoFilters]
    /\ hup' = [s \in Sessions |-> FALSE]
    /\ interact_sem' = 0

\* An initialize_search that takes the in-memory allocator whatever the dump path.
AllocSetMem(ix, dump) == [ix EXCEPT !.alloc = "mem", !.calls = Append(@, "set_alloc:mem")]

\* initialize_search, lines 176-179: set_alloc with the dump allocator when a
\* dump path is configured, with the in-memory allocator when not.
AllocSet(ix, dump) ==
    IF dump
    THEN [ix EXCEPT !.alloc = "dump", !.calls = Append(@, "set_alloc:dump")]
    ELSE [ix EXCEPT !.alloc = "mem", !.calls = Append(@, "set_alloc:mem")]

\* initialize_search, lines 175-179: no load path, so an allocator is set and the walk begins.
SetAlloc ==
    /\ mainpc = "initialize_search"
    /\ ~FLAGS.load_index
    /\ index' = AllocSet(index, FLAGS.dump_index)
    /\ walk_i' = 1
    /\ mainpc' = "walk"
    /\ UNCHANGED <<interact_sem, server>>
    /\ UNCHANGED cfgVars
    /\ UNCHANGED sessVars

\* walk_one, lines 164-169: one git_indexer for the path and the name, and
\* one indexer.walk for every revision, in the order of the list.
Walks(parsed) ==
    [k \in 1..Len(parsed.revs) |->
        [name |-> parsed.name, path |-> parsed.path, rev |-> parsed.revs[k]]]

\* What walk_one adds for the spec argv[i]: a tree for every revision walked.
WalkAdds(ix, i) ==
    LET ws == Walks(parse_walk_spec(argv[i])) IN
    [ix EXCEPT !.trees = @ \o [k \in 1..Len(ws) |-> i],
               !.walked = @ \o ws,
               !.calls = @ \o [k \in 1..Len(ws) |-> "walk"]]

\* initialize_search, lines 183-185: one iteration of the loop over argv.
WalkOne ==
    /\ mainpc = "walk"
    /\ walk_i < argc
    /\ index' = WalkAdds(index, walk_i)
    /\ walk_i' = walk_i + 1
    /\ UNCHANGED <<mainpc, interact_sem, server>>
    /\ UNCHANGED cfgVars
    /\ UNCHANGED sessVars

\* An initialize_search that leaves finalize out.
NotFinalized(ix) == ix

\* code_searcher::finalize as called on line 187: the index is sealed.
Finalized(ix) ==
    [ix EXCEPT !.sealed = TRUE, !.finalized = @ + 1, !.calls = Append(@, "finalize")]

\* initialize_search, lines 186-190: the loop is over; finalize seals the index.
Finalize ==
    /\ mainpc = "walk"
    /\ ~(walk_i < argc)
    /\ index' = Finalized(index)
    /\ mainpc' = "init_tail"
    /\ UNCHANGED <<walk_i, server, interact_sem>>
    /\ UNCHANGED cfgVars
    /\ UNCHANGED sessVars

\* An initialize_search that finalizes what it has loaded.
LoadedAndFinalized(ix) ==
    [ix EXCEPT !.trees = LoadedTrees, !.sealed = TRUE, !.loaded = TRUE, !.finalized = @ + 1,
               !.calls = @ \o <<"load_index", "finalize">>]

\* code_searcher::load_index as called on line 192.
Loaded(ix) ==
    [ix EXCEPT !.trees = LoadedTrees, !.sealed = TRUE, !.loaded = TRUE,
               !.calls = Append(@, "load_index")]

\* initialize_search, lines 191-193: a load path is given; the index comes sealed from the file.
LoadIndex ==
    /\ mainpc = "initialize_search"
    /\ FLAGS.load_index
    /\ index' = Loaded(index)
    /\ mainpc' = "init_tail"
    /\ UNCHANGED <<walk_i, server, interact_sem>>
    /\ UNCHANGED cfgVars
    /\ UNCHANGED sessVars

\* initialize_search, lines 196-197: dump_index when a dump path and a load path are given.
Dumped(ix, both) ==
    IF both THEN [ix EXCEPT !.dumped = TRUE, !.calls = Append(@, "dump_index")] ELSE ix

\* initialize_search, lines 194-197: dump_stats, and dump_index when loading and dumping.
InitTail ==
    /\ mainpc = "init_tail"
    /\ index' = Dumped(index, FLAGS.dump_index /\ FLAGS.load_index)
    /\ mainpc' = "sem_init"
    /\ UNCHANGED <<walk_i, server, interact_sem>>
    /\ UNCHANGED cfgVars
    /\ UNCHANGED sessVars

\* A sem_init that is one permit short.
SemInitOneShort == FLAGS.concurrency - 1

\* The value sem_init gives the semaphore.
SemInitValue == FLAGS.concurrency

\* main, lines 318-324: sem_init fails for a value it cannot hold (a negative
\* int taken as unsigned) and main dies; else main listens or interacts on stdin.
SemInit ==
    /\ mainpc = "sem_init"
    /\ IF FLAGS.concurrency < 0
       THEN ProcessEnds("died")
       ELSE /\ interact_sem' = SemInitValue
            /\ IF FLAGS.listen # <<>>
               THEN mainpc' = "bind" /\ UNCHANGED pc
               ELSE mainpc' = "interact" /\ pc' = [pc EXCEPT ![0] = "print_prompt"]
            /\ UNCHANGED <<query, cursor, results, stats, out, nmatch, filters, hup>>
    /\ UNCHANGED <<walk_i, server, index>>
    /\ UNCHANGED cfgVars

\* No socket yet.  calls: the system calls made for the socket, in their order;
\* error: what was written to stderr.
NoServer ==
    [kind |-> "none", address |-> <<>>, port |-> <<>>, bound |-> FALSE,
     listening |-> FALSE, calls |-> <<>>, error |-> "none"]

\* sizeof(addr.sun_path) of struct sockaddr_un.
SunPathSize == 108

\* The listen addresses that are tried where sessions are checked.
PlainListen == { <<>>, <<"/", "s">> }

\* A path longer than sun_path.
LongPath == [k \in 1..(SunPathSize + 1) |-> IF k = 1 THEN "/" ELSE "p"]

\* The listen addresses that are tried for the start-up.
ListenSpecs ==
    { <<>>,
      <<"/", "s">>,
      <<"h", ":", "8">>,
      <<"u", "n", "i", "x", ":", "/", "/", "/", "s">>,
      <<"t", "c", "p", ":", "/", "/", "h", ":", "8">>,
      <<"t", "c", "p", ":", "/", "/", "h">>,
      <<"t", "c", "p", ":", "/", "/", ":", "8">>,
      <<"u", "d", "p", ":", "/", "/", "h", ":", "8">>,
      <<"T", "C", "P", ":", "/", "/", "h", ":", "8">>,
      <<":", "/", "/", "s">>,
      LongPath }

\* What the system can answer to the calls of bind_to_address.
SysFailures == {"none", "getaddrinfo", "socket", "bind", "listen"}

\* What the use of addrs can do when getaddrinfo has left it NULL: the read
\* faults, or it yields values that are no address and the calls go on with
\* them, up to the call that fails, if one does.
NullAddrs == {"fault", "socket", "bind", "listen", "none"}

\* bind_to_address, lines 223-232: the protocol and the address of the spec.
ProtoOf(spec) ==
    LET off == Find(spec, <<":", "/", "/">>) IN
    IF off = npos THEN <<"u", "n", "i", "x">> ELSE Substr(spec, 0, off)

AddressOf(spec) ==
    LET off == Find(spec, <<":", "/", "/">>) IN
    IF off = npos THEN spec ELSE SubstrFrom(spec, off + 3)

\* bind_to_address, line 244: the memcpy into sun_path.
SunPath(address) ==
    Substr(address, 0, IF Len(address) < SunPathSize - 1 THEN Len(address) ELSE SunPathSize - 1)

\* exit(1) or die_errno: the process ends with msg on stderr; srv is how far it got.
Dies(srv, msg) == [next |-> "died", server |-> [srv EXCEPT !.error = msg]]

\* bind_to_address, lines 279-282: listen on the socket, and return it.
ListenOn(srv, fail) ==
    LET s1 == [srv EXCEPT !.calls = Append(@, "listen")] IN
    IF fail = "listen"
    THEN Dies(s1, "listen()")
    ELSE [next |-> "accept", server |-> [s1 EXCEPT !.listening = TRUE]]

\* bind_to_address, lines 236-247: the unix socket.
BindUnix(address, fail) ==
    LET s1 == [NoServer EXCEPT !.calls = <<"socket">>] IN
    IF fail = "socket"
    THEN Dies(s1, "socket(AF_UNIX)")
    ELSE LET s2 == [s1 EXCEPT !.kind = "unix", !.address = SunPath(address),
                              !.calls = Append(@, "bind")] IN
         IF fail = "bind"
         THEN Dies(s2, "Unable to bind socket")
         ELSE ListenOn([s2 EXCEPT !.bound = TRUE], fail)

\* bind_to_address, lines 267-272, with the addrinfo found for host and port,
\* or with what the NULL addrs yielded.
BindAddrs(srv, kind, host, port, fail) ==
    LET s1 == [srv EXCEPT !.calls = Append(@, "socket")] IN
    IF fail = "socket"
    THEN Dies(s1, "Creating socket")
    ELSE LET s2 == [s1 EXCEPT !.kind = kind, !.address = host, !.port = port,
                              !.calls = Append(@, "bind")] IN
         IF fail = "bind"
         THEN Dies(s2, "Binding to address")
         ELSE ListenOn([s2 EXCEPT !.bound = TRUE], fail)

\* bind_to_address, lines 262-267: getaddrinfo has failed; the error is printed
\* and the function goes on to read addrs, which is NULL.
ResolveFailed(srv, null) ==
    LET s1 == [srv EXCEPT !.error = "Error resolving"] IN
    IF null = "fault"
    THEN [next |-> "segv", server |-> s1]
    ELSE BindAddrs(s1, "garbage", <<>>, <<>>, null)

\* bind_to_address, lines 248-273: the tcp socket.
BindTcp(address, fail, null) ==
    LET colon == Find(address, <<":">>) IN
    IF colon = npos
    THEN Dies(NoServer, "-listen: TCP addresses must be HOST:PORT.")
    ELSE LET host == Substr(address, 0, colon)
             port == SubstrFrom(address, colon + 1)
             s1 == [NoServer EXCEPT !.calls = <<"getaddrinfo">>]
         IN  IF fail = "getaddrinfo"
             THEN ResolveFailed(s1, null)
             ELSE BindAddrs(s1, "tcp", host, port, fail)

\* bind_to_address, lines 222-282: where main goes, and the socket.
bind_to_address(spec, fail, null) ==
    LET proto == ProtoOf(spec)
        address == AddressOf(spec)
    IN  IF proto = <<"u", "n", "i", "x">> THEN BindUnix(address, fail)
        ELSE IF proto = <<"t", "c", "p">> THEN BindTcp(address, fail, null)
        ELSE Dies(NoServer, "Unknown protocol")

\* listen, line 285: bind_to_address returns a listening socket, or the process ends.
BindToAddress ==
    /\ mainpc = "bind"
    /\ \E fail \in SysFailures, null \in NullAddrs :
          LET r == bind_to_address(FLAGS.listen, fail, null) IN
          /\ server' = r.server
          /\ IF r.next = "accept"
             THEN mainpc' = "accept" /\ UNCHANGED interact_sem /\ UNCHANGED sessVars
             ELSE ProcessEnds(r.next)
    /\ UNCHANGED <<walk_i, index>>
    /\ UNCHANGED cfgVars

\* listen, lines 288-297: a connection is accepted and a thread runs handle_client
\* on it (lines 206-214), which enters interact.
Accept ==
    /\ mainpc = "accept"
    /\ \E s \in Clients :
          /\ pc[s] = "unborn"
          /\ \A t \in Clients : t < s => pc[t] # "unborn"
          /\ pc' = [pc EXCEPT ![s] = "print_prompt"]
    /\ UNCHANGED mainVars
    /\ UNCHANGED cfgVars
    /\ UNCHANGED <<query, cursor, results, stats, out, nmatch, filters, hup>>

\* listen, lines 289-290: accept fails and die_errno ends the process.
AcceptFail ==
    /\ mainpc = "accept"
    /\ ProcessEnds("died")
    /\ UNCHANGED <<walk_i, server, index>>
    /\ UNCHANGED cfgVars

(***************************************************************************)
(* interact: one session's loop.                                           *)
(***************************************************************************)
\* A match_stats as interact declares it for each query (line 107).
FreshStats == [exit_reason |-> "NONE"]

\* One search_thread for the whole process instead of one per call of interact.
SharedSearchThread(s) == 0

\* The search_thread a session searches with: interact's own local (line 64).
SearchThread(s) == s

\* A main that leaves SIGPIPE at its default.
SigpipeDefault == FALSE

\* main, line 314: signal(SIGPIPE, SIG_IGN).
SigpipeIgnored == TRUE

\* A write on a connection whose peer is gone raises SIGPIPE, which ends the
\* process unless it is ignored.
BrokenPipeKills(s) == s \in Clients /\ hup[s] /\ ~SigpipeIgnored

\* interact, line 71: print_prompt opens an iteration; the locals of the
\* iteration before it (input, line, file, tree, stats) are gone.
PrintPrompt(s) ==
    /\ Running
    /\ pc[s] = "print_prompt"
    /\ IF BrokenPipeKills(s)
       THEN ProcessEnds("sigpipe")
       ELSE /\ pc' = [pc EXCEPT ![s] = "getline"]
            /\ query' = [query EXCEPT ![s] = NoInput]
            /\ results' = [results EXCEPT ![s] = <<>>]
            /\ stats' = [stats EXCEPT ![s] = FreshStats]
            /\ out' = [out EXCEPT ![s] = <<"prompt">>]
            /\ nmatch' = [nmatch EXCEPT ![s] = 0]
            /\ filters' = [filters EXCEPT ![s] = NoFilters]
            /\ UNCHANGED <<cursor, hup, mainpc, interact_sem>>
    /\ UNCHANGED <<walk_i, server, index>>
    /\ UNCHANGED cfgVars

\* interact, lines 72-74: getline gives the next input, or fails when the
\* input has ended, and the loop is left.
GetLine(s) ==
    /\ Running
    /\ pc[s] = "getline"
    /\ IF hup[s]
       THEN /\ pc' = [pc EXCEPT ![s] = "return"]
            /\ UNCHANGED query
       ELSE \E input \in Inputs :
            /\ query' = [query EXCEPT ![s] = input]
            /\ pc' = [pc EXCEPT ![s] = "parse_query"]
    /\ UNCHANGED <<cursor, results, stats, out, nmatch, filters, hup>>
    /\ UNCHANGED mainVars
    /\ UNCHANGED cfgVars

\* The size check with >= for >.
TooBigAtBound(p) == ProgramSize(p) >= kMaxProgramSize

\* interact, line 95.
TooBig(p) == ProgramSize(p) > kMaxProgramSize

\* interact, lines 99-100.
TooWide(p) == Width(p) > kMaxWidth

\* The checks with file_re looked at before re.
VerdictFileFirst(q) ==
    IF ~parse_query(q) THEN "skip"
    ELSE IF ~ReOk(q.file) THEN "error:file"
    ELSE IF ~ReOk(q.line) THEN "error:line"
    ELSE IF ~ReOk(q.tree) THEN "error:tree"
    ELSE IF TooBig(q.line) THEN "error:Parse error."
    ELSE IF TooWide(q.line) THEN "error:Parse error."
    ELSE "ok"

\* interact, lines 77-103: what the checks of a query end in: "skip" (the
\* input did not parse), the error that is printed, or "ok".
Verdict(q) ==
    IF ~parse_query(q) THEN "skip"
    ELSE IF ~ReOk(q.line) THEN "error:line"
    ELSE IF ~ReOk(q.file) THEN "error:file"
    ELSE IF ~ReOk(q.tree) THEN "error:tree"
    ELSE IF TooBig(q.line) THEN "error:Parse error."
    ELSE IF TooWide(q.line) THEN "error:Parse error."
    ELSE "ok"

\* Checks whose errors do not leave the iteration: only an unparsed input does.
AfterChecksGoesOn(v) == IF v = "skip" THEN "print_prompt" ELSE "sem_wait"

\* Where the loop goes after the checks: on (to the semaphore) or back (continue).
AfterChecks(v) == IF v = "ok" THEN "sem_wait" ELSE "print_prompt"

\* What the checks print: the error (print_error), or the ProgramSize info of line 109.
ChecksPrint(o, v) ==
    IF v = "skip" THEN o
    ELSE IF v = "ok" THEN Append(o, "info")
    ELSE Append(o, v)

\* interact, lines 76-109: parse the query, compile the three regexes, check
\* the bounds; an error is printed and the loop continues, or the query goes on.
Validate(s) ==
    /\ Running
    /\ pc[s] = "parse_query"
    /\ LET v == Verdict(query[s]) IN
          IF v \notin {"skip", "ok"} /\ BrokenPipeKills(s)
          THEN ProcessEnds("sigpipe")
          ELSE /\ out' = [out EXCEPT ![s] = ChecksPrint(@, v)]
               /\ pc' = [pc EXCEPT ![s] = AfterChecks(v)]
               /\ UNCHANGED <<query, cursor, results, stats, nmatch, filters, hup>>
               /\ UNCHANGED <<mainpc, interact_sem>>
    /\ UNCHANGED <<walk_i, server, index>>
    /\ UNCHANGED cfgVars

\* A sem_wait that also returns at zero.
AcquireAtZero(v) == v >= 0

\* sem_wait returns when the semaphore's value is above zero.
CanAcquire(v) == v > 0

\* The null pointer that stands for "no filter" in the call of match.
NullRe == "<null>"

\* A call of match that passes &file_re whatever the file string is.
FileArgAlways(q) == q.file

\* interact, line 114: file.size() ? &file_re : 0
FileArg(q) == IF q.file # "" THEN q.file ELSE NullRe

\* interact, line 115: tree.size() ? &tree_re : 0
TreeArg(q) == IF q.tree # "" THEN q.tree ELSE NullRe

\* interact, lines 112-113: sem_wait takes a permit and match is called.
SemWait(s) ==
    /\ Running
    /\ pc[s] = "sem_wait"
    /\ CanAcquire(interact_sem)
    /\ interact_sem' = interact_sem - 1
    /\ pc' = [pc EXCEPT ![s] = "match"]
    /\ cursor' = [cursor EXCEPT ![SearchThread(s)] = 0]
    /\ nmatch' = [nmatch EXCEPT ![s] = @ + 1]
    /\ filters' = [filters EXCEPT ![s] =
                      [file_re |-> FileArg(query[s]), tree_re |-> TreeArg(query[s])]]
    /\ UNCHANGED <<query, results, stats, out, hup>>
    /\ UNCHANGED <<mainpc, walk_i, server, index>>
    /\ UNCHANGED cfgVars

\* A sem_post that is left out.
NotPosted(v) == v

\* A semaphore posted twice for one wait.
PostedTwice(v) == v + 2

\* The value sem_post leaves.
Posted(v) == v + 1

\* An interact that goes from match to print_stats without its sem_post.
SemPostLeftOut(s) ==
    /\ Running
    /\ pc[s] = "sem_post"
    /\ pc' = [pc EXCEPT ![s] = "print_stats"]
    /\ UNCHANGED <<query, cursor, results, stats, out, nmatch, filters, hup>>
    /\ UNCHANGED mainVars
    /\ UNCHANGED cfgVars

\* interact, line 117: sem_post gives the permit back.
SemPost(s) ==
    /\ Running
    /\ pc[s] = "sem_post"
    /\ interact_sem' = Posted(interact_sem)
    /\ pc' = [pc EXCEPT ![s] = "print_stats"]
    /\ UNCHANGED <<query, cursor, results, stats, out, nmatch, filters, hup>>
    /\ UNCHANGED <<mainpc, walk_i, server, index>>
    /\ UNCHANGED cfgVars

\* A loop that goes round without print_stats.
NoStatsOut(o) == o

\* What print_stats adds to the output (line 120).
StatsOut(o) == Append(o, "stats")

\* interact, lines 119-122: print_stats, and the loop goes round.
PrintStats(s) ==
    /\ Running
    /\ pc[s] = "print_stats"
    /\ IF BrokenPipeKills(s)
       THEN ProcessEnds("sigpipe")
       ELSE /\ out' = [out EXCEPT ![s] = StatsOut(@)]
            /\ pc' = [pc EXCEPT ![s] = "print_prompt"]
            /\ UNCHANGED <<query, cursor, results, stats, nmatch, filters, hup>>
            /\ UNCHANGED <<mainpc, interact_sem>>
    /\ UNCHANGED <<walk_i, server, index>>
    /\ UNCHANGED cfgVars

\* interact returns (line 123).  handle_client deletes the interface and the
\* child state and closes its streams (lines 215-219); main returns 0 (line 326).
Return(s) ==
    /\ Running
    /\ pc[s] = "return"
    /\ IF s = 0
       THEN ProcessEnds("exited")
       ELSE /\ pc' = [pc EXCEPT ![s] = "closed"]
            /\ hup' = [hup EXCEPT ![s] = FALSE]
            /\ UNCHANGED <<query, cursor, results, stats, out, nmatch, filters>>
            /\ UNCHANGED <<mainpc, interact_sem>>
    /\ UNCHANGED <<walk_i, server, index>>
    /\ UNCHANGED cfgVars

\* The peer closes the connection, the transport fails, or stdin ends.
Disconnect(s) ==
    /\ Running
    /\ pc[s] \notin {"unborn", "return", "closed"}
    /\ ~hup[s]
    /\ hup' = [hup EXCEPT ![s] = TRUE]
    /\ UNCHANGED <<pc, query, cursor, results, stats, out, nmatch, filters>>
    /\ UNCHANGED mainVars
    /\ UNCHANGED cfgVars

(***************************************************************************)
(* search_thread::match: the engine, as sections 4.4 and 5 of the          *)
(* specification describe it.  It takes the candidate lines of the sealed  *)
(* index in their order; at each loop boundary it looks at its limits.     *)
(***************************************************************************)
\* SearchStats.ExitReason of livegrep.proto.
ExitReason == {"NONE", "TIMEOUT", "MATCH_LIMIT"}

\* Steps 4 and 5 of the pipeline: the filters that were passed, then the line regex.
Accepts(re, file_re, tree_re, ln) ==
    /\ file_re # NullRe => FileMatch(file_re, ln.path)
    /\ tree_re # NullRe => TreeMatch(tree_re, ln.tree)
    /\ ReMatch(re, ln.line)

\* A limit that is noticed one result late.
LimitPassed(n) == n > match_limit

\* The engine stops when it has emitted match_limit results.
LimitReached(n) == n >= match_limit

\* print_match::operator(), lines 49-53: the result goes to the interface unless --quiet.
PrintMatch(o) == IF FLAGS.quiet THEN o ELSE Append(o, "match")

\* The reason the engine leaves with at a loop boundary where it stops by itself.
StopReason(n) == IF LimitReached(n) THEN "MATCH_LIMIT" ELSE "NONE"

\* The reason the engine leaves with when its deadline has expired.
DeadlineReason == "TIMEOUT"

\* match returns: the exit reason is in the stats the caller passed (line 116).
MatchReturns(s, reason) ==
    /\ stats' = [stats EXCEPT ![s].exit_reason = reason]
    /\ pc' = [pc EXCEPT ![s] = "sem_post"]
    /\ cursor' = [cursor EXCEPT ![SearchThread(s)] = 0]

\* interact, lines 113-116: one loop boundary of match and the candidate after it.
MatchStep(s) ==
    /\ Running
    /\ pc[s] = "match"
    /\ LET cands == Corpus(index.trees)
           at == cursor[SearchThread(s)]
           q == query[s]
       IN  IF LimitReached(Len(results[s])) \/ at >= Len(cands)
           THEN /\ MatchReturns(s, StopReason(Len(results[s])))
                /\ UNCHANGED <<results, out, mainpc, interact_sem>>
                /\ UNCHANGED <<query, nmatch, filters, hup>>
           ELSE IF Accepts(q.line, filters[s].file_re, filters[s].tree_re, cands[at + 1])
           THEN IF ~FLAGS.quiet /\ BrokenPipeKills(s)
                THEN ProcessEnds("sigpipe")
                ELSE /\ cursor' = [cursor EXCEPT ![SearchThread(s)] = at + 1]
                     /\ results' = [results EXCEPT ![s] = Append(@, at + 1)]
                     /\ out' = [out EXCEPT ![s] = PrintMatch(@)]
                     /\ UNCHANGED <<pc, stats, mainpc, interact_sem>>
                     /\ UNCHANGED <<query, nmatch, filters, hup>>
           ELSE /\ cursor' = [cursor EXCEPT ![SearchThread(s)] = at + 1]
                /\ UNCHANGED <<results, out, pc, stats, mainpc, interact_sem>>
                /\ UNCHANGED <<query, nmatch, filters, hup>>
    /\ UNCHANGED <<walk_i, server, index>>
    /\ UNCHANGED cfgVars

\* The deadline of the search expires while candidates are left: the engine
\* stops at the loop boundary with what it has emitted.
MatchTimeout(s) ==
    /\ Running
    /\ pc[s] = "match"
    /\ ~LimitReached(Len(results[s]))
    /\ cursor[SearchThread(s)] < Len(Corpus(index.trees))
    /\ MatchReturns(s, DeadlineReason)
    /\ UNCHANGED <<query, results, out, nmatch, filters, hup>>
    /\ UNCHANGED mainVars
    /\ UNCHANGED cfgVars

(***************************************************************************)
(* The specification.                                                      *)
(***************************************************************************)
\* main before initialize_search: nothing built, no socket, no session.
Started ==
    /\ mainpc = "initialize_search"
    /\ walk_i = 0
    /\ index = EmptyIndex
    /\ interact_sem = 0
    /\ server = NoServer
    /\ pc = [s \in Sessions |-> "unborn"]
    /\ query = [s \in Sessions |-> NoInput]
    /\ cursor = [s \in Sessions |-> 0]
    /\ results = [s \in Sessions |-> <<>>]
    /\ stats = [s \in Sessions |-> FreshStats]
    /\ out = [s \in Sessions |-> <<>>]
    /\ nmatch = [s \in Sessions |-> 0]
    /\ filters = [s \in Sessions |-> NoFilters]
    /\ hup = [s \in Sessions |-> FALSE]

\* The command lines that are tried.  --dump_index is read by initialize_search
\* alone and is given no value here; sessions are checked without it, with
\* plain tree specs and a plain listen address.
Init ==
    /\ FLAGS \in [load_index : BOOLEAN, dump_index : {FALSE}, listen : PlainListen,
                  quiet : BOOLEAN, concurrency : -1..MaxConcurrency]
    /\ argc \in 1..(MaxArgs + 1)
    /\ argv \in [1..(argc - 1) -> PlainSpecs]
    /\ match_limit \in 0..MaxMatchLimit
    /\ Started

Next ==
    \/ SetAlloc
    \/ WalkOne
    \/ Finalize
    \/ LoadIndex
    \/ InitTail
    \/ SemInit
    \/ BindToAddress
    \/ Accept
    \/ AcceptFail
    \/ \E s \in Sessions : PrintPrompt(s)
    \/ \E s \in Sessions : GetLine(s)
    \/ \E s \in Sessions : Validate(s)
    \/ \E s \in Sessions : SemWait(s)
    \/ \E s \in Sessions : MatchStep(s)
    \/ \E s \in Sessions : MatchTimeout(s)
    \/ \E s \in Sessions : SemPost(s)
    \/ \E s \in Sessions : PrintStats(s)
    \/ \E s \in Sessions : Return(s)
    \/ \E s \in Sessions : Disconnect(s)

Spec == Init /\ [][Next]_vars

(***************************************************************************)
(* The start-up alone: main from initialize_search to the point where it   *)
(* serves (the accept loop, or interact on stdin), over every combination  *)
(* of --load_index and --dump_index, the tree specs WalkSpecs and the      *)
(* listen addresses ListenSpecs.                                           *)
(***************************************************************************)
StartInit ==
    /\ FLAGS \in [load_index : BOOLEAN, dump_index : BOOLEAN, listen : ListenSpecs,
                  quiet : {FALSE}, concurrency : {1}]
    /\ argc \in 1..(MaxArgs + 1)
    /\ argv \in [1..(argc - 1) -> WalkSpecs]
    /\ match_limit = 1
    /\ Started

StartNext ==
    \/ SetAlloc
    \/ WalkOne
    \/ Finalize
    \/ LoadIndex
    \/ InitTail
    \/ SemInit
    \/ BindToAddress

StartSpec == StartInit /\ [][StartNext]_vars

(***************************************************************************)
(* The server under fair scheduling.  A thread that can take a step of     *)
(* its search, of sem_post or of print_stats takes it in the end; a thread *)
(* in sem_wait that finds the semaphore above zero again and again gets a  *)
(* permit in the end (sem_wait queues no one: a permit that is posted can  *)
(* be taken by any thread that asks for it).  Nothing is assumed of the    *)
(* clients, of accept, or of the deadline of a search.                     *)
(***************************************************************************)
LiveInit ==
    /\ FLAGS \in [load_index : BOOLEAN, dump_index : {FALSE}, listen : {<<"/", "s">>},
                  quiet : {FALSE}, concurrency : {1}]
    /\ argc = 2
    /\ argv = <<CHOOSE spec \in PlainSpecs : TRUE>>
    /\ match_limit = 1
    /\ Started

Fairness ==
    \A s \in Sessions :
       /\ SF_vars(SemWait(s))
       /\ WF_vars(MatchStep(s))
       /\ WF_vars(SemPost(s))
       /\ WF_vars(PrintStats(s))

LiveSpec == LiveInit /\ [][Next]_vars /\ Fairness

(***************************************************************************)
(* Notions the properties below are stated in.                             *)
(***************************************************************************)
\* The sessions that are inside search.match.
InMatch == {s \in Sessions : pc[s] = "match"}

\* The sessions that hold a permit: sem_wait has returned, sem_post is not done.
Holders == {s \in Sessions : pc[s] \in {"match", "sem_post"}}

\* The semaphore has been initialised and the process lives.
SemReady == mainpc \in {"bind", "accept", "interact"}

\* The session has a thread that runs.
Alive(s) == pc[s] \notin {"unborn", "closed", "killed"}

\* The places of the loop at which no search has begun or is running.
BeforeSearch == {"parse_query", "print_prompt"}

\* An error was printed.
IsError(e) == e \in {"error:line", "error:file", "error:tree", "error:Parse error."}

\* The three regexes of the query compile.
Compiles(q) == ReOk(q.line) /\ ReOk(q.file) /\ ReOk(q.tree)

\* The query passes every check of interact.
Valid(q) ==
    /\ q.kind = "query"
    /\ Compiles(q)
    /\ ProgramSize(q.line) <= 4000
    /\ Width(q.line) <= 200

\* n times "match".
RECURSIVE MatchEvents(_)
MatchEvents(n) == IF n = 0 THEN <<>> ELSE <<"match">> \o MatchEvents(n - 1)

\* The search of the session's query has returned.
Searched(s) == nmatch[s] > 0 /\ pc[s] \in {"sem_post", "print_stats", "print_prompt"}

(***************************************************************************)
(* C1.  At no time are more sessions inside search.match than the value    *)
(* --concurrency gave the semaphore, however many sessions there are and   *)
(* however their steps interleave.                                         *)
(***************************************************************************)
C1_MatchBounded == InMatch # {} => Cardinality(InMatch) <= FLAGS.concurrency

\* One permit, one session searching, and another kept waiting for it.
C1_Witness ==
    /\ FLAGS.concurrency = 1
    /\ \E s \in Clients, t \in Clients :
          /\ pc[s] = "match"
          /\ pc[t] = "sem_wait"
          /\ interact_sem = 0

(***************************************************************************)
(* C2.  A query takes one permit before its search and gives one back when *)
(* the search returns, whatever it returns with: the free permits and the  *)
(* searches in progress always add up to CONCURRENCY, the semaphore never  *)
(* goes below zero or above CONCURRENCY, a session enters match only with  *)
(* a permit taken in that step and leaves sem_post with exactly one more   *)
(* permit free.                                                            *)
(***************************************************************************)
C2_PermitsStep ==
    \A s \in Sessions :
       /\ (pc[s] # "match" /\ pc'[s] = "match") => interact_sem' = interact_sem - 1
       /\ (pc[s] = "sem_post" /\ pc'[s] = "print_stats") => interact_sem' = interact_sem + 1
       /\ (pc[s] = "match" /\ pc'[s] = "sem_post") => interact_sem' = interact_sem

C2_PermitsConserved ==
    /\ [](SemReady =>
            /\ interact_sem + Cardinality(Holders) = FLAGS.concurrency
            /\ interact_sem >= 0
            /\ \A s \in Sessions : nmatch[s] <= 1)
    /\ [][C2_PermitsStep]_vars

\* A search that ended by TIMEOUT has given its permit back while another search runs.
C2_Witness ==
    \E s \in Clients, t \in Clients :
       /\ pc[s] = "print_stats"
       /\ stats[s].exit_reason = "TIMEOUT"
       /\ pc[t] = "match"
       /\ interact_sem = FLAGS.concurrency - 1

(***************************************************************************)
(* C3.  A query whose line regex has more than 4000 instructions or a      *)
(* width above 200 is rejected: one error is printed, there is no search   *)
(* and no stats, and the session is back at the prompt.  A regex of        *)
(* exactly 4000 instructions and width 200 is searched.                    *)
(***************************************************************************)
C3_Over(q) ==
    /\ q.kind = "query"
    /\ Compiles(q)
    /\ (ProgramSize(q.line) > 4000 \/ Width(q.line) > 200)

C3_OnBound(q) ==
    /\ q.kind = "query"
    /\ Compiles(q)
    /\ ProgramSize(q.line) = 4000
    /\ Width(q.line) = 200

C3_ComplexRejected ==
    \A s \in Sessions :
       /\ C3_Over(query[s]) =>
             /\ pc[s] \in BeforeSearch
             /\ nmatch[s] = 0
             /\ results[s] = <<>>
             /\ pc[s] = "print_prompt" => out[s] = <<"prompt", "error:Parse error.">>
       /\ C3_OnBound(query[s]) =>
             /\ pc[s] = "print_prompt" =>
                   /\ nmatch[s] = 1
                   /\ \A k \in 1..Len(out[s]) : ~IsError(out[s][k])
                   /\ out[s][Len(out[s])] = "stats"

\* One session was refused a regex that is too wide, another one that is too
\* big, after a regex on both bounds was searched.
C3_Witness ==
    \E s \in Clients, t \in Clients :
       /\ pc[s] = "print_prompt" /\ query[s] = Query("wide", "", "")
       /\ out[s] = <<"prompt", "error:Parse error.">>
       /\ pc[t] = "print_prompt" /\ query[t] = Query("edge", "", "")
       /\ nmatch[t] = 1

(***************************************************************************)
(* C4.  When one of the regexes of a query does not compile, exactly one   *)
(* error is printed, that of the first bad one in the order line, file,    *)
(* tree; no search is started; the session goes on to the next prompt.     *)
(***************************************************************************)
C4_FirstBad(q) ==
    IF q.line = "(" THEN "error:line"
    ELSE IF q.file = "(" THEN "error:file"
    ELSE "error:tree"

C4_CompileError ==
    \A s \in Sessions :
       (query[s].kind = "query" /\ ~Compiles(query[s])) =>
          /\ pc[s] \in BeforeSearch
          /\ nmatch[s] = 0
          /\ results[s] = <<>>
          /\ pc[s] = "print_prompt" => out[s] = <<"prompt", C4_FirstBad(query[s])>>

\* Every regex of the query was bad and the line's error was printed; the
\* session is at its next prompt.
C4_Witness ==
    \E s \in Clients :
       /\ pc[s] = "print_prompt"
       /\ query[s] = Query("(", "(", "(")
       /\ out[s] = <<"prompt", "error:line">>

(***************************************************************************)
(* C5.  The session is a request/response loop.  For a query that passes   *)
(* every check there is one search; its results are printed while it runs; *)
(* its stats are printed once, after the search has returned; only then    *)
(* comes the next prompt.  The loop is left only when getline fails.       *)
(***************************************************************************)
C5_Printed(s) ==
    <<"prompt", "info">> \o MatchEvents(IF FLAGS.quiet THEN 0 ELSE Len(results[s]))

C5_LoopState ==
    \A s \in Sessions :
       Valid(query[s]) =>
          /\ pc[s] \in {"parse_query", "sem_wait", "match", "sem_post",
                        "print_stats", "print_prompt"}
          /\ pc[s] = "parse_query" => nmatch[s] = 0 /\ out[s] = <<"prompt">>
          /\ pc[s] = "sem_wait" => nmatch[s] = 0 /\ out[s] = <<"prompt", "info">>
          /\ pc[s] \in {"match", "sem_post", "print_stats"} =>
                nmatch[s] = 1 /\ out[s] = C5_Printed(s)
          /\ pc[s] = "print_prompt" =>
                nmatch[s] = 1 /\ out[s] = C5_Printed(s) \o <<"stats">>

C5_LoopStep ==
    \A s \in Sessions :
       /\ (pc[s] # "return" /\ pc'[s] = "return") => (pc[s] = "getline" /\ hup[s])
       /\ (pc[s] # "getline" /\ pc'[s] = "getline") => pc[s] = "print_prompt"
       /\ (pc[s] = "getline" /\ ~hup[s]) => pc'[s] \in {"getline", "parse_query", "killed"}

C5_RequestResponse == []C5_LoopState /\ [][C5_LoopStep]_vars

\* A query was searched, two results and then the stats were printed, and
\* the session is about to prompt again.
C5_Witness ==
    \E s \in Clients :
       /\ pc[s] = "print_prompt"
       /\ Valid(query[s])
       /\ out[s] = <<"prompt", "info", "match", "match", "stats">>

(***************************************************************************)
(* C6.  No search runs before the index is sealed and nothing is ingested  *)
(* after: initialize_search has walked every tree spec and finalized once, *)
(* or has loaded the index, before the semaphore is initialised and before *)
(* a session exists; while a session lives the index does not change.      *)
(***************************************************************************)
C6_Built ==
    IF FLAGS.load_index
    THEN index.loaded /\ index.finalized = 0 /\ index.trees = LoadedTrees
    ELSE /\ ~index.loaded
         /\ index.finalized = 1
         /\ index.trees = [i \in 1..(argc - 1) |-> i]

C6_SealedState ==
    /\ index.sealed => C6_Built
    /\ SemReady => index.sealed
    /\ \A s \in Sessions : pc[s] # "unborn" => index.sealed
    /\ (InMatch # {}) => index.sealed

C6_SealedStep ==
    /\ index.sealed =>
          /\ index'.sealed
          /\ index'.trees = index.trees
          /\ index'.finalized = index.finalized
    /\ (\E s \in Sessions : pc[s] # "unborn") => index' = index

C6_SealedBeforeSearch == []C6_SealedState /\ [][C6_SealedStep]_vars

\* A search runs over the index that was built from one tree spec and finalized once.
C6_Witness ==
    \E s \in Sessions :
       /\ pc[s] = "match"
       /\ index.finalized = 1
       /\ index.trees = <<1>>
       /\ cursor[s] = 1

(***************************************************************************)
(* What a search of the query finds in the index when nothing cuts it      *)
(* short but the match limit.                                              *)
(***************************************************************************)
Hit(q, ln) ==
    /\ ReMatch(q.line, ln.line)
    /\ q.file = "" \/ FileMatch(q.file, ln.path)
    /\ q.tree = "" \/ TreeMatch(q.tree, ln.tree)

Hits(q) ==
    LET cands == Corpus(index.trees)
        IsHit(i) == Hit(q, cands[i])
    IN  SelectSeq([i \in 1..Len(cands) |-> i], IsHit)

Expected(q) ==
    LET all == Hits(q)
    IN  SubSeq(all, 1, IF Len(all) < match_limit THEN Len(all) ELSE match_limit)

IsPrefix(a, b) == Len(a) <= Len(b) /\ a = SubSeq(b, 1, Len(a))

\* What a session owns: its query, its search thread's position, its results, stats and output.
Own(s) == <<query[s], cursor[s], results[s], stats[s], out[s], nmatch[s]>>

(***************************************************************************)
(* C7 as stated.  Searches of the same query over the same sealed index    *)
(* return identical results, however the sessions interleave.              *)
(***************************************************************************)
C7_AllIdentical ==
    \A s \in Sessions, t \in Sessions :
       (Searched(s) /\ Searched(t) /\ query[s] = query[t]) => results[s] = results[t]

(***************************************************************************)
(* C7, amended.  Searches of the same query that do not end by TIMEOUT     *)
(* return identical results, those the index and the query determine; a    *)
(* search that ends by TIMEOUT returns a prefix of them.  No step of one   *)
(* session changes what another session owns.                              *)
(***************************************************************************)
C7_SameResultsState ==
    /\ \A s \in Sessions :
          Searched(s) =>
             /\ stats[s].exit_reason # "TIMEOUT" => results[s] = Expected(query[s])
             /\ IsPrefix(results[s], Expected(query[s]))
    /\ \A s \in Sessions, t \in Sessions :
          ( /\ Searched(s) /\ Searched(t) /\ query[s] = query[t]
            /\ stats[s].exit_reason # "TIMEOUT" /\ stats[t].exit_reason # "TIMEOUT" )
          => results[s] = results[t]

C7_OwnStep ==
    Running' => Cardinality({s \in Sessions : Own(s)' # Own(s)}) <= 1

C7_SameResults == []C7_SameResultsState /\ [][C7_OwnStep]_vars

\* Two sessions hold a permit at once, each with the search of the same
\* query behind it and the same two results.
C7_Witness ==
    \E s \in Clients, t \in Clients :
       /\ s # t
       /\ pc[s] = "sem_post" /\ pc[t] = "sem_post"
       /\ query[s] = query[t]
       /\ results[s] = <<1, 2>> /\ results[t] = <<1, 2>>

(***************************************************************************)
(* C8.  The end of input or a transport error on one connection ends that  *)
(* session alone: its thread leaves the loop and closes its streams; the   *)
(* step changes nothing of the other sessions, of the accept loop or of    *)
(* the semaphore; the process is never ended by a write to a peer that is  *)
(* gone.                                                                   *)
(***************************************************************************)
C8_Leaves(s) ==
    \/ pc[s] = "getline" /\ pc'[s] = "return"
    \/ pc[s] = "return" /\ pc'[s] = "closed"

C8_OnlyThatSessionStep ==
    \A s \in Clients :
       /\ C8_Leaves(s) =>
             /\ mainpc' = mainpc
             /\ interact_sem' = interact_sem
             /\ \A t \in Sessions \ {s} : pc'[t] = pc[t] /\ Own(t)' = Own(t)
       /\ (hup[s] /\ pc[s] = "getline") => pc'[s] \in {"getline", "return", "killed"}

C8_OnlyThatSessionState ==
    /\ mainpc # "sigpipe"
    /\ \A s \in Clients : pc[s] \in {"return", "closed"} => mainpc = "accept"
    /\ SemReady => interact_sem + Cardinality(Holders) = FLAGS.concurrency

C8_OnlyThatSession == []C8_OnlyThatSessionState /\ [][C8_OnlyThatSessionStep]_vars

\* One connection has ended and is closed; the other session searches on
\* with its permit and the accept loop runs.
C8_Witness ==
    \E s \in Clients, t \in Clients :
       /\ pc[s] = "closed"
       /\ pc[t] = "match" /\ ~hup[t]
       /\ mainpc = "accept"
       /\ interact_sem = FLAGS.concurrency - 1

(***************************************************************************)
(* C9 as stated.  When a search is cut short the results already emitted   *)
(* are kept, exit_reason is TIMEOUT for an expired deadline and CANCELLED  *)
(* for a client that is gone, and the permit is released.                  *)
(***************************************************************************)
C9_Cut(s) == ~LimitReached(Len(results[s])) /\ cursor[s] < Len(Corpus(index.trees))

C9_KeptAndReleased(s) ==
    /\ (pc[s] = "match" /\ pc'[s] = "sem_post") =>
          /\ results'[s] = results[s]
          /\ out'[s] = out[s]
          /\ (C9_Cut(s) /\ ~hup[s]) => stats'[s].exit_reason = "TIMEOUT"
    /\ pc[s] = "sem_post" => pc'[s] \in {"sem_post", "print_stats", "killed"}
    /\ (pc[s] = "sem_post" /\ pc'[s] = "print_stats") => interact_sem' = interact_sem + 1

C9_OriginalStep ==
    \A s \in Sessions :
       /\ C9_KeptAndReleased(s)
       /\ (pc[s] = "match" /\ pc'[s] = "sem_post" /\ hup[s]) =>
             stats'[s].exit_reason = "CANCELLED"

C9_Cancelled == [][C9_OriginalStep]_vars

(***************************************************************************)
(* C9, amended.  When the deadline expires the results already emitted are *)
(* kept and exit_reason is TIMEOUT.  A client that is gone does not cut    *)
(* the search short and has no exit_reason of its own: the search ends     *)
(* with NONE, TIMEOUT or MATCH_LIMIT as it does for a client that is       *)
(* there.  In every case the permit of the query is released.              *)
(***************************************************************************)
C9_AmendedStep ==
    \A s \in Sessions :
       /\ C9_KeptAndReleased(s)
       /\ (pc[s] = "match" /\ pc'[s] = "sem_post" /\ C9_Cut(s)) =>
             stats'[s].exit_reason = "TIMEOUT"
       /\ hup'[s] # hup[s] => (pc'[s] = "closed" \/ ~Running' \/ (pc'[s] = pc[s] /\ Own(s)' = Own(s)))

C9_AmendedState ==
    \A s \in Sessions :
       /\ stats[s].exit_reason \in {"NONE", "TIMEOUT", "MATCH_LIMIT"}
       /\ (Searched(s) /\ stats[s].exit_reason = "TIMEOUT") =>
             /\ IsPrefix(results[s], Hits(query[s]))
             /\ Len(results[s]) < match_limit
             /\ ~FLAGS.quiet => Len(SelectSeq(out[s], LAMBDA e : e = "match")) = Len(results[s])
       /\ (SemReady /\ pc[s] \in {"print_stats", "print_prompt"}) => s \notin Holders
       /\ SemReady => interact_sem + Cardinality(Holders) = FLAGS.concurrency

C9_TimeoutKeepsResults == []C9_AmendedState /\ [][C9_AmendedStep]_vars

\* The client went away, the deadline expired after one result; the result
\* is kept, the stats say TIMEOUT and the permit is back.
C9_Witness ==
    \E s \in Clients :
       /\ pc[s] = "print_stats"
       /\ hup[s]
       /\ stats[s].exit_reason = "TIMEOUT"
       /\ results[s] = <<1>>
       /\ interact_sem = FLAGS.concurrency

(***************************************************************************)
(* C10.  A search emits at most match_limit results.  Having emitted       *)
(* match_limit results it stops with MATCH_LIMIT; with match_limit = 0 it  *)
(* emits nothing and stops with MATCH_LIMIT; stopped by neither the limit  *)
(* nor the deadline it has emitted every hit and carries NONE; exit_reason *)
(* is always NONE, TIMEOUT or MATCH_LIMIT.                                 *)
(***************************************************************************)
C10_MatchLimitState ==
    \A s \in Sessions :
       /\ Len(results[s]) <= match_limit
       /\ stats[s].exit_reason \in {"NONE", "TIMEOUT", "MATCH_LIMIT"}
       /\ Searched(s) =>
             /\ Len(results[s]) = match_limit <=> stats[s].exit_reason = "MATCH_LIMIT"
             /\ match_limit = 0 => results[s] = <<>> /\ stats[s].exit_reason = "MATCH_LIMIT"
             /\ stats[s].exit_reason = "NONE" => results[s] = Hits(query[s])

C10_MatchLimitStep ==
    \A s \in Sessions :
       /\ (pc[s] = "match" /\ Len(results[s]) >= match_limit) =>
             /\ results'[s] = results[s] \/ ~Running'
             /\ pc'[s] \in {"match", "sem_post", "killed"}
       /\ (pc[s] = "match" /\ pc'[s] = "sem_post") =>
             /\ Len(results[s]) >= match_limit => stats'[s].exit_reason = "MATCH_LIMIT"
             /\ (Len(results[s]) < match_limit /\ cursor[s] >= Len(Corpus(index.trees)))
                   => stats'[s].exit_reason = "NONE"

C10_MatchLimit == []C10_MatchLimitState /\ [][C10_MatchLimitStep]_vars

\* Two lines match and the limit is one: one result, and the stats say MATCH_LIMIT.
C10_Witness ==
    \E s \in Sessions :
       /\ Searched(s)
       /\ match_limit = 1
       /\ Len(Hits(query[s])) = 2
       /\ results[s] = <<1>>
       /\ stats[s].exit_reason = "MATCH_LIMIT"

(***************************************************************************)
(* Notions of the start-up.                                                *)
(***************************************************************************)
\* How often the call c was made on the index.
Count(calls, c) == Cardinality({k \in 1..Len(calls) : calls[k] = c})

\* initialize_search has built the index and is at or past its tail.
InitDone == mainpc \notin {"initialize_search", "walk"}

\* The calls that ingest makes.
IngestCalls == {"set_alloc:mem", "set_alloc:dump", "walk", "finalize"}

C15_AllocatorFirst ==
    /\ (~FLAGS.load_index /\ mainpc # "initialize_search") =>
          /\ Len(index.calls) >= 1
          /\ index.calls[1] = (IF FLAGS.dump_index THEN "set_alloc:dump" ELSE "set_alloc:mem")
          /\ index.alloc = (IF FLAGS.dump_index THEN "dump" ELSE "mem")
    /\ Count(index.calls, "set_alloc:dump") + Count(index.calls, "set_alloc:mem") <= 1
    /\ \A k \in 1..Len(index.calls) :
          index.calls[k] \in {"walk", "finalize"} =>
             /\ k > 1
             /\ index.calls[1] \in {"set_alloc:dump", "set_alloc:mem"}
    /\ (index.trees # <<>> /\ ~index.loaded) => index.alloc # "none"
    /\ (FLAGS.load_index /\ FLAGS.dump_index /\ mainpc \notin {"initialize_search", "init_tail"}) =>
          /\ index.dumped
          /\ index.calls = <<"load_index", "dump_index">>
    /\ index.dumped => index.loaded

\* A tree has been walked into the dump allocator.
C15_Witness ==
    /\ ~FLAGS.load_index
    /\ FLAGS.dump_index
    /\ mainpc = "walk"
    /\ index.alloc = "dump"
    /\ Len(index.walked) >= 1

(***************************************************************************)
(* C13.  A tree spec [name@]path[:rev1,rev2,...] is parsed and walked so   *)
(* that the name is the text before the first '@' (empty when there is     *)
(* none), the path the text after it up to the first ':', and the          *)
(* revisions the comma-separated items after that ':' in the order they    *)
(* are written; with no revision given the list is HEAD alone, so it is    *)
(* never empty, and every revision of the list is walked once, in order,   *)
(* with that name and path.                                                *)
(***************************************************************************)
\* The character c occurs in the string s.
Has(s, c) == \E k \in 1..Len(s) : s[k] = c

\* The text is a list rev1,rev2,... of one or more revisions, none of them empty.
RevList(t) ==
    /\ t # <<>>
    /\ t[1] # ","
    /\ t[Len(t)] # ","
    /\ \A k \in 1..(Len(t) - 1) : ~(t[k] = "," /\ t[k + 1] = ",")

RECURSIVE JoinRevs(_)
\* The revisions written one after the other with commas between them.
JoinRevs(revs) ==
    IF Len(revs) = 1 THEN revs[1] ELSE revs[1] \o <<",">> \o JoinRevs(Tail(revs))

\* The walks made for the tree spec argv[i], in their order.
WalkedOf(i) ==
    LET K == {k \in 1..Len(index.trees) : index.trees[k] = i} IN
    IF K = {} THEN <<>>
    ELSE LET first == CHOOSE k \in K : \A j \in K : k <= j IN
         [n \in 1..Cardinality(K) |-> index.walked[first + n - 1]]

\* The walks R are those of the tree spec S: its name, its path, its revisions.
C13_WalksOfSpec(S, R) ==
    /\ Len(R) >= 1
    /\ LET name == R[1].name
           path == R[1].path
           revs == [k \in 1..Len(R) |-> R[k].rev]
           rest == IF Has(S, "@") THEN SubSeq(S, Len(name) + 2, Len(S)) ELSE S
           after == IF Has(rest, ":") THEN SubSeq(rest, Len(path) + 2, Len(rest)) ELSE <<>>
       IN  /\ \A k \in 1..Len(R) : R[k].name = name /\ R[k].path = path
           /\ ~Has(name, "@")
           /\ IF Has(S, "@")
              THEN /\ Len(name) < Len(S)
                   /\ SubSeq(S, 1, Len(name)) = name
                   /\ S[Len(name) + 1] = "@"
              ELSE name = <<>>
           /\ ~Has(path, ":")
           /\ IF Has(rest, ":")
              THEN /\ Len(path) < Len(rest)
                   /\ SubSeq(rest, 1, Len(path)) = path
                   /\ rest[Len(path) + 1] = ":"
              ELSE path = rest
           /\ \A k \in 1..Len(revs) : ~Has(revs[k], ",")
           /\ after = <<>> => revs = <<HEAD>>
           /\ RevList(after) => JoinRevs(revs) = after

C13_SpecParsedAndWalked ==
    ~FLAGS.load_index =>
       /\ Len(index.walked) = Len(index.trees)
       /\ \A i \in 1..(argc - 1) :
             IF mainpc # "initialize_search" /\ i < walk_i
             THEN C13_WalksOfSpec(argv[i], WalkedOf(i))
             ELSE WalkedOf(i) = <<>>

\* The spec n@r:a,b has been walked: a, then b, both with name n and path r.
C13_Witness ==
    /\ ~FLAGS.load_index
    /\ argc = 2
    /\ argv[1] = <<"n", "@", "r", ":", "a", ",", "b">>
    /\ index.walked = << [name |-> <<"n">>, path |-> <<"r">>, rev |-> <<"a">>],
                          [name |-> <<"n">>, path |-> <<"r">>, rev |-> <<"b">>] >>

(***************************************************************************)
(* Notions of the listen address.                                          *)
(***************************************************************************)
\* main is past bind_to_address, however it ended.
BindDone == FLAGS.listen # <<>> /\ mainpc \notin {"initialize_search", "walk", "init_tail", "sem_init", "bind"}

\* The address names a unix socket: no "://", or the scheme unix.
UnixSpec(spec) == Find(spec, <<":", "/", "/">>) = npos \/ ProtoOf(spec) = <<"u", "n", "i", "x">>

\* The address is tcp://HOST:PORT.
TcpSpec(spec) ==
    /\ Find(spec, <<":", "/", "/">>) # npos
    /\ ProtoOf(spec) = <<"t", "c", "p">>
    /\ Has(AddressOf(spec), ":")

\* The last of the system calls made for the socket.
LastCall == IF server.calls = <<>> THEN "none" ELSE server.calls[Len(server.calls)]

(***************************************************************************)
(* C14.  The listen address has two schemes.  An address without "://",    *)
(* or with the scheme unix, is bound as a local stream socket on that      *)
(* path; tcp://HOST:PORT is bound as a TCP socket on that host and port.   *)
(* Any other scheme, and a tcp address without ':', ends the process with  *)
(* an error, and no socket is listened on.                                 *)
(***************************************************************************)
C14_TwoSchemes ==
    LET spec == FLAGS.listen
        address == AddressOf(spec)
    IN  /\ (server.bound \/ server.listening) =>
              IF UnixSpec(spec)
              THEN /\ server.kind = "unix"
                   /\ Len(server.address) <= Len(address)
                   /\ server.address = SubSeq(address, 1, Len(server.address))
                   /\ Len(address) < SunPathSize => server.address = address
              ELSE /\ TcpSpec(spec)
                   /\ server.kind = "tcp"
                   /\ server.address \o <<":">> \o server.port = address
                   /\ ~Has(server.address, ":")
        /\ (BindDone /\ ~UnixSpec(spec) /\ ~TcpSpec(spec)) =>
              /\ mainpc = "died"
              /\ server.error # "none"
              /\ server.calls = <<>>
              /\ ~server.listening

(***************************************************************************)
(* C19.  bind_to_address returns only a socket that was created, bound     *)
(* and put in listening state.  Every failure on the way (unknown          *)
(* protocol, malformed tcp address, resolution of host and port, socket,   *)
(* bind, listen) ends the process with an error before any later step of   *)
(* the set-up is made and before a connection is accepted.                 *)
(***************************************************************************)
C19_ListeningOrDead ==
    /\ mainpc = "accept" =>
          /\ server.kind \in {"unix", "tcp"}
          /\ server.bound
          /\ server.listening
          /\ server.error = "none"
    /\ server.error # "none" =>
          /\ mainpc = "died"
          /\ ~server.listening
          /\ \A s \in Sessions : pc[s] = "unborn"
          /\ server.error \in {"Unknown protocol", "-listen: TCP addresses must be HOST:PORT."}
                => server.calls = <<>>
          /\ server.error = "Error resolving" => LastCall = "getaddrinfo"
          /\ server.error \in {"socket(AF_UNIX)", "Creating socket"}
                => LastCall = "socket" /\ server.kind = "none"
          /\ server.error \in {"Unable to bind socket", "Binding to address"}
                => LastCall = "bind" /\ ~server.bound
          /\ server.error = "listen()" => LastCall = "listen"
    /\ BindDone => mainpc \in {"accept", "died"}

(***************************************************************************)
(* C12.  An empty file or tree string in a query means no constraint.      *)
(* The search is given a file filter exactly when the file string is not   *)
(* empty, and a tree filter exactly when the tree string is not empty; an  *)
(* empty filter string excludes no result and causes no error.             *)
(***************************************************************************)
\* The lines the line regex of q matches, whatever their file and tree.
C12_LineHits(q) ==
    LET cands == Corpus(index.trees)
        IsHit(i) == ReMatch(q.line, cands[i].line)
    IN  SelectSeq([i \in 1..Len(cands) |-> i], IsHit)

C12_EmptyMeansNoFilter ==
    \A s \in Sessions :
       /\ nmatch[s] = 0 => filters[s] = NoFilters
       /\ nmatch[s] > 0 =>
             /\ filters[s].file_re = (IF query[s].file = "" THEN NullRe ELSE query[s].file)
             /\ filters[s].tree_re = (IF query[s].tree = "" THEN NullRe ELSE query[s].tree)
             /\ filters[s].file_re = NullRe <=> query[s].file = ""
             /\ filters[s].tree_re = NullRe <=> query[s].tree = ""
       /\ (query[s].kind = "query" /\ query[s].file = "") => \A k \in 1..Len(out[s]) : out[s][k] # "error:file"
       /\ (query[s].kind = "query" /\ query[s].tree = "") => \A k \in 1..Len(out[s]) : out[s][k] # "error:tree"
       /\ (Searched(s) /\ stats[s].exit_reason = "NONE"
             /\ query[s].file = "" /\ query[s].tree = "")
             => results[s] = C12_LineHits(query[s])
       /\ (Searched(s) /\ stats[s].exit_reason = "NONE") => results[s] = Hits(query[s])

\* A search with a file filter and an empty tree string has returned its results.
C12_Witness ==
    \E s \in Sessions :
       /\ Searched(s)
       /\ query[s] = Query("hello", "\\.c$", "")
       /\ filters[s] = [file_re |-> "\\.c$", tree_re |-> NullRe]
       /\ stats[s].exit_reason = "NONE"
       /\ results[s] = <<1>>

(***************************************************************************)
(* C16.  A query that does not parse or fails a check (a regex that does   *)
(* not compile, a program size or a width over its bound) never takes or   *)
(* waits for a permit: its error is reported also when every permit is     *)
(* held by other sessions, and the semaphore's value is not changed by it. *)
(***************************************************************************)
C16_RejectedState ==
    \A s \in Sessions :
       /\ (Running /\ pc[s] = "parse_query" /\ Verdict(query[s]) # "ok") => ENABLED Validate(s)
       /\ pc[s] \in {"sem_wait", "match", "sem_post"} => Verdict(query[s]) = "ok"

C16_RejectedStep ==
    \A s \in Sessions :
       (pc[s] = "parse_query" /\ Verdict(query[s]) # "ok" /\ pc'[s] # pc[s] /\ mainpc' = mainpc) =>
          /\ pc'[s] = "print_prompt"
          /\ interact_sem' = interact_sem
          /\ nmatch'[s] = 0
          /\ filters'[s] = NoFilters
          /\ IsError(Verdict(query[s])) => out'[s] = Append(out[s], Verdict(query[s]))

C16_RejectedTakesNoPermit == []C16_RejectedState /\ [][C16_RejectedStep]_vars

\* An error has been reported to one client while the other holds the only permit.
C16_Witness ==
    /\ FLAGS.concurrency = 1
    /\ interact_sem = 0
    /\ \E s \in Clients, t \in Clients :
          /\ pc[t] = "match"
          /\ pc[s] = "print_prompt"
          /\ out[s] = <<"prompt", "error:Parse error.">>

(***************************************************************************)
(* C17.  A session holds a permit only while its search runs, the          *)
(* printing of the search's results included.  Where a session prints the  *)
(* prompt, reads the next query, checks a query, prints an error or        *)
(* prints stats it holds none: an idle or slow client takes no permit      *)
(* away from the others.                                                   *)
(***************************************************************************)
\* The places of the loop outside the search.
C17_Outside == {"print_prompt", "getline", "parse_query", "sem_wait", "print_stats", "return"}

\* The permits that are taken.
C17_Taken == FLAGS.concurrency - interact_sem

C17_State ==
    SemReady =>
       /\ C17_Taken <= Cardinality({s \in Sessions : Alive(s) /\ pc[s] \notin C17_Outside})
       /\ (\A s \in Sessions : Alive(s) => pc[s] \in C17_Outside) => interact_sem = FLAGS.concurrency

C17_Step ==
    \A s \in Sessions :
       (pc[s] \in C17_Outside /\ pc'[s] \in C17_Outside /\ pc'[s] # pc[s] /\ mainpc' = mainpc)
          => interact_sem' = interact_sem

C17_PermitOnlyInSearch == []C17_State /\ [][C17_Step]_vars

\* One client has its stats to print and the other waits at its prompt for
\* input, and every permit is free.
C17_Witness ==
    /\ FLAGS.concurrency = 1
    /\ interact_sem = 1
    /\ \E s \in Clients, t \in Clients :
          /\ pc[s] = "print_stats"
          /\ Len(results[s]) >= 1
          /\ pc[t] = "getline"
          /\ ~hup[t]

(***************************************************************************)
(* C18.  With CONCURRENCY >= 1, under fair scheduling and with searches    *)
(* that terminate, every checked query that waits for a permit is          *)
(* admitted in the end and its stats are printed in the end, unless the    *)
(* process ends first; the sessions never deadlock on the semaphore,       *)
(* whatever their number.                                                  *)
(***************************************************************************)
\* The stats of the session's query have been printed.
C18_StatsPrinted(s) ==
    /\ pc[s] = "print_prompt"
    /\ out[s] # <<>>
    /\ out[s][Len(out[s])] = "stats"

\* Some session waits and no permit is free, yet no session holds one.
C18_Deadlock ==
    /\ \E s \in Sessions : pc[s] = "sem_wait"
    /\ interact_sem = 0
    /\ \A s \in Sessions : pc[s] \notin {"match", "sem_post"}

C18_Live(s) ==
    /\ (FLAGS.concurrency >= 1 /\ pc[s] = "sem_wait") ~> (pc[s] = "match" \/ ~Running)
    /\ (FLAGS.concurrency >= 1 /\ pc[s] = "sem_wait") ~> (C18_StatsPrinted(s) \/ ~Running)

====
